---- MODULE Spec2Model ----
(***************************************************************************)
(* Deskbot: a desktop companion (animated face, webcam face tracking,      *)
(* voice input, chat backend, speech output).                              *)
(*                                                                         *)
(* The module models, from the Python sources,                             *)
(*   - OpenAIIntegration (openai_integration.py): conversation history,    *)
(*   - DeskbotGUI (gui.py): eye smoothing, blink timer, expression,        *)
(*   - FaceTracking (face_tracking.py): normalised face position, decay,   *)
(*   - Deskbot (main.py): the GUI flow, the voice loop and the face loop.  *)
(*                                                                         *)
(* The floats of face_tracking.py (face positions) and of gui.py (eye      *)
(* offsets and their targets) are IEEE-754 binary64 numbers computed with  *)
(* round-to-nearest-even, as Python computes them.  Python's integers 0,   *)
(* 1 and -1 in a position are the floats of the same value.  Exact         *)
(* rationals [num, den] in lowest terms serve for the quotients of         *)
(* integers and the decimal literals before they are rounded.              *)
(***************************************************************************)
EXTENDS Integers, Sequences, FiniteSets, TLC

VARIABLES
    \* ---- OpenAIIntegration (openai_integration.py)
    client,                 \* TRUE: self.client is an OpenAI client; FALSE: None
    conversation_history,   \* self.conversation_history
    conv_pc,                \* "idle", or "calling": a get_response call has appended
                            \* the user message and waits in chat.completions.create
    conv_ret,               \* value returned by the last get_response ("none" before
                            \* any, and while a call waits)
    backend_called,         \* the last get_response reached chat.completions.create
    conv_op,                \* history variable: the last step taken:
                            \* "none" | "unconfigured" | "send" | "ok" | "raise" | "reset"
    conv_pre,               \* history variable: conversation_history before the
                            \* last step
    conv_overlapped         \* history variable: reset_conversation ran while a
                            \* get_response call waited, and the history was not
                            \* reset between calls since

VARIABLES
    \* ---- FaceTracking (face_tracking.py)
    cap,                    \* self.cap: "none" (None), "open", "released" (after cleanup)
    last_face_position,     \* self.last_face_position: None or (x, y)
    face_ret,               \* value returned by the last get_face_position
    face_op,                \* history variable: the path the last get_face_position took
    decay_from,             \* history variable: the position stored by the last detection
    decay_k                 \* history variable: polls without a face since decay_from

VARIABLES
    \* ---- DeskbotGUI (gui.py)
    left_eye_x, left_eye_y, right_eye_x, right_eye_y,   \* eye offsets (pixels)
    target_eye_x, target_eye_y,                         \* smoothing target
    expression,             \* "normal" | "happy" | "talking"
    expression_setter,      \* history variable: the flow whose set_expression call
                            \* set expression last ("none" before any call)
    blink_timer,            \* self.blink_timer
    is_blinking,            \* self.is_blinking
    status_text,            \* text of status_label
    button_text,            \* text of listen_button
    ticks,                  \* history variable: number of animate calls so far
    target_tick,            \* history variable: the value of ticks when the target
                            \* last changed
    target_from_rest,       \* history variable: both eyes were at offset (0, 0)
                            \* when the target last changed
    widget_flows,           \* history variable: the flows that have mutated a widget
    writers                 \* history variable: per shared field, the flows that have
                            \* written it since construction

VARIABLES
    \* ---- Deskbot (main.py)
    running,                \* self.running
    listening,              \* self.listening
    voice_enabled,          \* self.voice_enabled
    face_tracking_enabled,  \* self.face_tracking_enabled
    gpc,                    \* where the main thread (Deskbot.run, the GUI event loop) is;
                            \* "exited": run has returned, "ended": the process has ended
    toggles,                \* history variable: clicks on the listen button so far
    vpc,                    \* where the voice thread is in voice_loop
    v_text,                 \* voice_loop's local  text
    v_response,             \* voice_loop's local  response
    v_gate,                 \* history variable: what the check of line 46 found in
                            \* this iteration
    v_trace,                \* history variable: the calls made so far in this
                            \* iteration, of get_response, set_expression("talking"),
                            \* speak, set_expression("normal")
    v_raised,               \* history variable: a call of this iteration raised
    v_iters,                \* history variable: texts heard so far
    fpc,                    \* where the face thread is in face_tracking_loop and, inside
                            \* its get_face_position call, in that method
    f_position,             \* face_tracking_loop's local  face_position
    f_polls                 \* history variable: polls of the loop that found or
                            \* followed a face

conv_vars == <<client, conversation_history, conv_pc, conv_ret, backend_called, conv_op,
               conv_pre, conv_overlapped>>
face_vars == <<cap, last_face_position, face_ret, face_op, decay_from, decay_k>>

eye_vars  == <<left_eye_x, left_eye_y, right_eye_x, right_eye_y>>
gui_vars  == <<eye_vars, target_eye_x, target_eye_y, expression, expression_setter,
               blink_timer, is_blinking,
               status_text, button_text, ticks, target_tick, target_from_rest,
               widget_flows, writers>>

flag_vars  == <<running, listening, voice_enabled, face_tracking_enabled>>
main_vars  == <<gpc, toggles>>
voice_vars == <<vpc, v_text, v_response, v_gate, v_trace, v_raised, v_iters>>
floop_vars == <<fpc, f_position, f_polls>>
app_vars   == <<flag_vars, main_vars, voice_vars, floop_vars>>

vars == <<conv_vars, face_vars, gui_vars, app_vars>>

(***************************************************************************)
(* Bounds of the model.                                                    *)
(***************************************************************************)
\* a failing backend call is explored only while the history is shorter than this
MaxHistory == 21
\* consecutive polls without a face explored after a detection
MaxDecay == 5
\* animate calls explored when the GUI runs alone (two blink cycles and a bit)
MaxTicks == 320
\* in the whole application: animate calls, clicks on the listen button, texts
\* heard by the voice loop, polls of the face loop
MaxGuiTicks == 2
\* animate calls explored when the eyes follow a target
MaxSmoothTicks == 222
\* when the eyes follow a target, a target is stored only while fewer than this
\* many animate calls were made
MaxSmoothStart == 3
MaxToggles == 2
MaxVoiceIters == 1
MaxFacePolls == 1

(***************************************************************************)
(* Exact rationals in lowest terms.                                        *)
(***************************************************************************)
Abs(n) == IF n < 0 THEN -n ELSE n

RECURSIVE GCD(_, _)
GCD(a, b) == IF b = 0 THEN a ELSE GCD(b, a % b)

\* the quotient n / d of integers n, d with d > 0
Rat(n, d) ==
    LET g == GCD(Abs(n), d)
    IN  [num |-> n \div g, den |-> d \div g]

RatInt(n) == [num |-> n, den |-> 1]

(***************************************************************************)
(* Python float arithmetic: IEEE-754 binary64 with round-to-nearest-even.  *)
(* A natural number is the sequence of its base-2^14 digits, lowest first, *)
(* without a leading zero digit (zero is the empty sequence).  A dyadic    *)
(* number [neg, man, exp] is +-man * 2^exp; a float is a dyadic number     *)
(* whose mantissa has exactly 53 bits, or zero.  Every operation computes  *)
(* the exact result and rounds it once, as the hardware does.  The values  *)
(* of the program stay far inside the exponent range, and no operation of  *)
(* the program produces a negative zero.                                   *)
(***************************************************************************)
LimbBits == 14
LimbBase == 16384
MantissaBits == 53

Pow2Table == <<1, 2, 4, 8, 16, 32, 64, 128, 256, 512, 1024, 2048, 4096, 8192, 16384>>
Pow2(k) == Pow2Table[k + 1]

Min(a, b) == IF a < b THEN a ELSE b
Max(a, b) == IF a < b THEN b ELSE a

\* the element of a set of one element; an expression e(u) over a value v is
\* written  The({e(u) : u \in {v}}),  which evaluates v once
The(S) == CHOOSE once \in S : TRUE

NatLimb(a, i) == IF i <= Len(a) THEN a[i] ELSE 0

\* the sequence with the n elements f[1], ..., f[n] of a function f
Digits(f) == <<>> \o f

RECURSIVE NatNormOf(_)
NatNormOf(a) ==
    IF a = <<>> THEN a
    ELSE IF a[Len(a)] = 0 THEN NatNormOf(SubSeq(a, 1, Len(a) - 1))
    ELSE a

NatNorm(a) == The({NatNormOf(u) : u \in {a}})

RECURSIVE NatOfInt(_)
NatOfInt(n) == IF n = 0 THEN <<>> ELSE <<n % LimbBase>> \o NatOfInt(n \div LimbBase)

\* the digits of the column sums cols from column i on, four columns at a step
RECURSIVE NatCarry(_, _, _)
NatCarry(cols, i, carry) ==
    IF i > Len(cols)
    THEN NatOfInt(carry)
    ELSE LET s1 == cols[i] + carry
             s2 == NatLimb(cols, i + 1) + s1 \div LimbBase
             s3 == NatLimb(cols, i + 2) + s2 \div LimbBase
             s4 == NatLimb(cols, i + 3) + s3 \div LimbBase
         IN  <<s1 % LimbBase, s2 % LimbBase, s3 % LimbBase, s4 % LimbBase>>
             \o The({NatCarry(cols, i + 4, c) : c \in {s4 \div LimbBase}})

\* the natural number with the column sums cols
NatOfColumns(cols) == The({NatNormOf(NatCarry(c, 1, 0)) : c \in {Digits(cols)}})

NatAddOf(a, b) == NatOfColumns([i \in 1..Max(Len(a), Len(b)) |-> NatLimb(a, i) + NatLimb(b, i)])
NatAdd(a, b) == The({NatAddOf(u, v) : u \in {a}, v \in {b}})

\* a - b, for a >= b
RECURSIVE NatBorrow(_, _, _, _)
NatBorrow(a, b, i, borrow) ==
    IF i > Len(a)
    THEN <<>>
    ELSE LET s == a[i] - NatLimb(b, i) - borrow
         IN  IF s < 0
             THEN <<s + LimbBase>> \o NatBorrow(a, b, i + 1, 1)
             ELSE <<s>> \o NatBorrow(a, b, i + 1, 0)

NatSubOf(a, b) == NatNorm(NatBorrow(a, b, 1, 0))
NatSub(a, b) == The({NatSubOf(u, v) : u \in {a}, v \in {b}})

\* -1, 0, 1 as a < b, a = b, a > b
RECURSIVE NatCmpFrom(_, _, _)
NatCmpFrom(a, b, i) ==
    IF i = 0 THEN 0
    ELSE IF a[i] < b[i] THEN -1
    ELSE IF a[i] > b[i] THEN 1
    ELSE NatCmpFrom(a, b, i - 1)

NatCmpOf(a, b) ==
    IF Len(a) < Len(b) THEN -1
    ELSE IF Len(a) > Len(b) THEN 1
    ELSE NatCmpFrom(a, b, Len(a))

NatCmp(a, b) == The({NatCmpOf(u, v) : u \in {a}, v \in {b}})

\* a * m, for 0 <= m <= 2^14
NatMulSmallOf(a, m) == NatOfColumns([i \in 1..Len(a) |-> a[i] * m])
NatMulSmall(a, m) == The({NatMulSmallOf(u, v) : u \in {a}, v \in {m}})

\* a * b, for b of at most seven digits
RECURSIVE NatColumn(_, _, _, _)
NatColumn(a, b, k, j) ==
    IF j > Len(b) THEN 0
    ELSE (IF k - j + 1 >= 1 /\ k - j + 1 <= Len(a) THEN a[k - j + 1] * b[j] ELSE 0)
         + NatColumn(a, b, k, j + 1)

NatMulOf(a, b) ==
    IF a = <<>> \/ b = <<>> THEN <<>>
    ELSE NatOfColumns([k \in 1..(Len(a) + Len(b) - 1) |-> NatColumn(a, b, k, 1)])

NatMul(a, b) == The({NatMulOf(u, v) : u \in {a}, v \in {b}})

\* a * 2^k
NatShlOf(a, k) ==
    IF a = <<>> THEN a
    ELSE Digits([i \in 1..(k \div LimbBits) |-> 0]) \o NatMulSmallOf(a, Pow2(k % LimbBits))

NatShl(a, k) == The({NatShlOf(u, v) : u \in {a}, v \in {k}})

\* a \div 2^k
NatShrOf(a, k) ==
    LET q == k \div LimbBits
        r == k % LimbBits
    IN  IF q >= Len(a) THEN <<>>
        ELSE NatNorm(Digits([i \in 1..(Len(a) - q) |->
                               (a[i + q] \div Pow2(r))
                               + (NatLimb(a, i + q + 1) % Pow2(r)) * Pow2(LimbBits - r)]))

NatShr(a, k) == The({NatShrOf(u, v) : u \in {a}, v \in {k}})

\* bit k of a (bit 0 is the lowest)
NatBit(a, k) == (NatLimb(a, k \div LimbBits + 1) \div Pow2(k % LimbBits)) % 2

\* a % 2^k = 0
NatLowZero(a, k) ==
    /\ \A i \in 1..Min(k \div LimbBits, Len(a)) : a[i] = 0
    /\ NatLimb(a, k \div LimbBits + 1) % Pow2(k % LimbBits) = 0

NatBitLenOf(a) ==
    IF a = <<>> THEN 0
    ELSE (Len(a) - 1) * LimbBits
         + (CHOOSE k \in 1..LimbBits : Pow2(k - 1) <= a[Len(a)] /\ a[Len(a)] < Pow2(k))

NatBitLen(a) == The({NatBitLenOf(u) : u \in {a}})

\* a \div m and a % m for 0 < m < 2^17: the digits from digit i down, after
\* remainder rem
RECURSIVE NatDivFrom(_, _, _, _)
NatDivFrom(a, m, i, rem) ==
    IF i = 0 THEN [quo |-> <<>>, rem |-> rem]
    ELSE The({[quo |-> Append(rest.quo, cur \div m), rem |-> rest.rem] :
                 cur \in {rem * LimbBase + a[i]},
                 rest \in {NatDivFrom(a, m, i - 1, (rem * LimbBase + a[i]) % m)}})

NatDivSmallOf(a, m) ==
    The({[quo |-> NatNormOf(d.quo), rem |-> d.rem] : d \in {NatDivFrom(a, m, Len(a), 0)}})

NatDivSmall(a, m) == The({NatDivSmallOf(u, v) : u \in {a}, v \in {m}})

DyadicOf(neg, man, exp) ==
    IF man = <<>> THEN [neg |-> FALSE, man |-> <<>>, exp |-> 0]
    ELSE [neg |-> neg, man |-> man, exp |-> exp]

Dyadic(neg, man, exp) == The({DyadicOf(u, v, w) : u \in {neg}, v \in {man}, w \in {exp}})

DyZero == [neg |-> FALSE, man |-> <<>>, exp |-> 0]
DyNeg(a) == The({DyadicOf(~x.neg, x.man, x.exp) : x \in {a}})
DyAbs(a) == The({DyadicOf(FALSE, x.man, x.exp) : x \in {a}})
DySign(a) == The({IF x.man = <<>> THEN 0 ELSE IF x.neg THEN -1 ELSE 1 : x \in {a}})

\* a + b, exactly
DyAddOf(a, b) ==
    IF a.man = <<>> THEN b
    ELSE IF b.man = <<>> THEN a
    ELSE The({IF a.neg = b.neg THEN Dyadic(a.neg, NatAddOf(ma, mb), e)
              ELSE The({IF c = 0 THEN DyZero
                        ELSE IF c > 0 THEN Dyadic(a.neg, NatSubOf(ma, mb), e)
                        ELSE Dyadic(b.neg, NatSubOf(mb, ma), e) :
                        c \in {NatCmpOf(ma, mb)}}) :
              e \in {Min(a.exp, b.exp)},
              ma \in {NatShlOf(a.man, a.exp - Min(a.exp, b.exp))},
              mb \in {NatShlOf(b.man, b.exp - Min(a.exp, b.exp))}})

DyAdd(a, b) == The({DyAddOf(u, v) : u \in {a}, v \in {b}})
DySub(a, b) == DyAdd(a, DyNeg(b))

\* a * b, exactly
DyMul(a, b) ==
    The({Dyadic(x.neg # y.neg, NatMulOf(x.man, y.man), x.exp + y.exp) : x \in {a}, y \in {b}})

\* a * 2^k, exactly
DyScale(a, k) == The({DyadicOf(x.neg, x.man, x.exp + k) : x \in {a}})

\* the sign of a - b
DyCmp(a, b) == DySign(DySub(a, b))

\* the float nearest to a, ties to the even mantissa
FloatRoundOf(a) ==
    LET len == NatBitLenOf(a.man)
        cut == len - MantissaBits
    IN  IF len = 0 THEN DyZero
        ELSE IF cut = 0 THEN a
        ELSE IF cut < 0 THEN Dyadic(a.neg, NatShlOf(a.man, -cut), a.exp + cut)
        ELSE The({LET up == /\ NatBit(a.man, cut - 1) = 1
                            /\ (~NatLowZero(a.man, cut - 1) \/ NatBit(quo, 0) = 1)
                  IN  The({IF NatBitLenOf(man) > MantissaBits
                           THEN Dyadic(a.neg, NatShrOf(man, 1), a.exp + cut + 1)
                           ELSE Dyadic(a.neg, man, a.exp + cut) :
                           man \in {IF up THEN NatAddOf(quo, <<1>>) ELSE quo}}) :
                  quo \in {NatShrOf(a.man, cut)}})

FloatRound(a) == The({FloatRoundOf(u) : u \in {a}})

FloatAdd(a, b) == FloatRound(DyAdd(a, b))
FloatSub(a, b) == FloatRound(DySub(a, b))
FloatMul(a, b) ==
    The({IF x.man = <<>> \/ y.man = <<>> THEN DyZero ELSE FloatRound(DyMul(x, y)) :
         x \in {a}, y \in {b}})

\* the float nearest to the rational number r: an integer is rounded as it is;
\* else the quotient is cut below bit 55 and a last bit records whether anything
\* was cut off
FloatOfRational(r) ==
    LET k == MantissaBits + 2 + NatBitLen(NatOfInt(r.den))
    IN  IF r.den = 1 THEN FloatRound(Dyadic(r.num < 0, NatOfInt(Abs(r.num)), 0))
        ELSE
        The({FloatRound(Dyadic(r.num < 0,
                               NatAdd(NatShl(d.quo, 1), IF d.rem = 0 THEN <<>> ELSE <<1>>),
                               -k - 1)) :
             d \in {NatDivSmall(NatShl(NatOfInt(Abs(r.num)), k), r.den)}})

FloatOf(r) == The({FloatOfRational(u) : u \in {r}})

(***************************************************************************)
(* OpenAIIntegration                                                       *)
(***************************************************************************)
\* openai_integration.py:76  "if len(self.conversation_history) > 19"
HistoryCap == 19
\* openai_integration.py:78  "self.conversation_history[-18:]"
KeepRecent == 18

\* the texts handed to get_response and the replies of the backend
Inputs == {"hello"}
Replies == {"hi there"}

SystemMessage == [role |-> "system", content |-> "You are Deskbot"]
NotConfiguredReply == "I'm sorry, but I'm not configured properly. Please set up your OpenAI API key."
ErrorReply == "I'm sorry, I encountered an error processing your request."

UserMessage(user_input) == [role |-> "user", content |-> user_input]
AssistantMessage(assistant_message) == [role |-> "assistant", content |-> assistant_message]

\* Python's  lst[-n:]  : the last n entries (the whole list when it is shorter)
LastN(lst, n) == IF Len(lst) <= n THEN lst ELSE SubSeq(lst, Len(lst) - n + 1, Len(lst))

\* mutant of TrimHistory: the slice alone, the system message forgotten
TrimHistory_DropsSystem(h) ==
    IF Len(h) > HistoryCap THEN LastN(h, HistoryCap) ELSE h

\* lines 76-78: keep the system message and the most recent messages
TrimHistory(h) ==
    IF Len(h) > HistoryCap THEN <<h[1]>> \o LastN(h, KeepRecent) ELSE h

\* mutant of get_response_unconfigured: the client is tested after the append
get_response_unconfigured_Appends(user_input) ==
    /\ ~client
    /\ conv_pc = "idle"
    /\ Len(conversation_history) < MaxHistory
    /\ conversation_history' = Append(conversation_history, [role |-> "user", content |-> user_input])
    /\ conv_ret' = NotConfiguredReply
    /\ backend_called' = FALSE
    /\ conv_op' = "unconfigured"
    /\ conv_pre' = conversation_history
    /\ UNCHANGED <<client, conv_pc, conv_overlapped>>

\* get_response with self.client None (lines 48-49)
get_response_unconfigured(user_input) ==
    /\ ~client
    /\ conv_pc = "idle"
    /\ conv_ret' = NotConfiguredReply
    /\ backend_called' = FALSE
    /\ conv_op' = "unconfigured"
    /\ conv_pre' = conversation_history
    /\ UNCHANGED <<client, conversation_history, conv_pc, conv_overlapped>>

\* get_response up to the backend call (lines 51-64): the user message is
\* appended and the call waits in chat.completions.create, while the other
\* threads run
get_response_send(user_input) ==
    /\ client
    /\ conv_pc = "idle"
    /\ conversation_history' = Append(conversation_history, UserMessage(user_input))
    /\ conv_pc' = "calling"
    /\ conv_ret' = "none"
    /\ backend_called' = TRUE
    /\ conv_op' = "send"
    /\ conv_pre' = conversation_history
    /\ UNCHANGED <<client, conv_overlapped>>

\* the backend call returns assistant_message (lines 67-80): the reply is
\* appended to the history as it is by then, the history is trimmed
get_response_ok(assistant_message) ==
    /\ conv_pc = "calling"
    /\ conversation_history' =
          TrimHistory(Append(conversation_history, AssistantMessage(assistant_message)))
    /\ conv_pc' = "idle"
    /\ conv_ret' = assistant_message
    /\ conv_op' = "ok"
    /\ conv_pre' = conversation_history
    /\ UNCHANGED <<client, backend_called, conv_overlapped>>

\* the backend call raises (lines 82-84): the user message appended at line 53
\* stays, nothing is trimmed
get_response_raise ==
    /\ conv_pc = "calling"
    /\ Len(conversation_history) <= MaxHistory
    /\ conv_pc' = "idle"
    /\ conv_ret' = ErrorReply
    /\ conv_op' = "raise"
    /\ conv_pre' = conversation_history
    /\ UNCHANGED <<client, conversation_history, backend_called, conv_overlapped>>

\* reset_conversation (lines 86-88); nothing keeps another thread from calling
\* it while a get_response call waits for the backend
reset_conversation ==
    /\ conversation_history' = <<conversation_history[1]>>
    /\ conv_pre' = conversation_history
    /\ conv_overlapped' = (conv_pc = "calling")
    /\ conv_op' = "reset"
    /\ UNCHANGED <<client, conv_pc, conv_ret, backend_called>>

\* OpenAIIntegration.__init__ (lines 13-37); the credential is set or not
ConvInit ==
    /\ client \in BOOLEAN
    /\ conversation_history = <<SystemMessage>>
    /\ conv_pc = "idle"
    /\ conv_ret = "none"
    /\ backend_called = FALSE
    /\ conv_op = "none"
    /\ conv_pre = <<SystemMessage>>
    /\ conv_overlapped = FALSE


(***************************************************************************)
(* FaceTracking                                                            *)
(***************************************************************************)
\* face_tracking.py:98-99  "x *= 0.95": the float of the literal
DecayFactor == FloatOf(Rat(95, 100))
\* face_tracking.py:100  "abs(x) < 0.01": the float of the literal
SnapThreshold == FloatOf(Rat(1, 100))

\* a < b for floats
FloatLt(a, b) == DyCmp(a, b) < 0

\* n / d for integers n, d with d > 0 (Python's true division): the float
\* nearest to the quotient
FloatDiv(n, d) == FloatOf(Rat(n, d))

\* max(lo, min(hi, a)) for integers lo <= hi
FloatClamp(lo, hi, a) ==
    IF FloatLt(FloatOf(RatInt(hi)), a) THEN FloatOf(RatInt(hi))
    ELSE IF FloatLt(a, FloatOf(RatInt(lo))) THEN FloatOf(RatInt(lo))
    ELSE a

\* Optional (x, y): Python's None, or a tuple of two numbers
NoPosition == [some |-> FALSE, x |-> DyZero, y |-> DyZero]
Position(x, y) == [some |-> TRUE, x |-> x, y |-> y]

\* the frames the camera delivers: 640 x 480 as requested at lines 24-25
Frames == {[width |-> 640, height |-> 480]}

\* detectMultiScale results: sequences of bounding boxes (x, y, w, h), within or
\* overlapping the frame
Box(x, y, w, h) == [x |-> x, y |-> y, w |-> w, h |-> h]
FaceLists ==
    { <<Box(224, 143, 200, 200)>>,                         \* centre (324, 243)
      <<Box(224, 140, 200, 200)>>,                         \* centre (324, 240)
      <<Box(600, -200, 200, 100)>>,                        \* beyond the right and top edges
      <<Box(-300, 400, 100, 400)>>,                        \* beyond the left and bottom edges
      <<Box(110, 310, 100, 100)>>,                         \* centre (160, 360)
      <<Box(0, 0, 30, 30), Box(300, 220, 40, 40), Box(600, 440, 40, 40)>> }

\* the faces the detector reports while the whole application runs
AppFaceLists ==
    { <<Box(600, -200, 200, 100)>> }

Area(f) == f.w * f.h

\* max(faces, key=lambda f: f[2] * f[3]): the first face of the largest area
LargestFace(faces) ==
    LET best == CHOOSE i \in 1..Len(faces) :
                   /\ \A j \in 1..Len(faces) : Area(faces[j]) <= Area(faces[i])
                   /\ \A j \in 1..(i - 1) : Area(faces[j]) < Area(faces[i])
    IN  faces[best]

\* mutant of NormalizedPosition: lines 86-87 (the clamp) left out
NormalizedPosition_Unclamped(frame, face) ==
    Position(FloatDiv(face.x + face.w \div 2 - frame.width \div 2, frame.width \div 2),
             FloatDiv(face.y + face.h \div 2 - frame.height \div 2, frame.height \div 2))

\* lines 69-92: centre of the face, normalised by the half frame size and clamped
NormalizedPosition(frame, face) ==
    LET face_center_x  == face.x + face.w \div 2
        face_center_y  == face.y + face.h \div 2
        frame_center_x == frame.width \div 2
        frame_center_y == frame.height \div 2
        normalized_x   == FloatDiv(face_center_x - frame_center_x, frame.width \div 2)
        normalized_y   == FloatDiv(face_center_y - frame_center_y, frame.height \div 2)
    IN  Position(FloatClamp(-1, 1, normalized_x), FloatClamp(-1, 1, normalized_y))

\* lines 69-92 for the faces of one detection
DetectedPositionOf(frame, faces) == NormalizedPosition(frame, LargestFace(faces))

\* the positions of the detections of AppFaceLists, computed once
DetectedTable ==
    [input \in Frames \X AppFaceLists |-> DetectedPositionOf(input[1], input[2])] @@ <<>>

DetectedPosition(frame, faces) ==
    The({IF <<frame, faces>> \in DOMAIN table THEN table[<<frame, faces>>]
         ELSE DetectedPositionOf(frame, faces) :
         table \in {DetectedTable}})

\* lines 98-100 for one coordinate: x * 0.95, and whether abs of it is below 0.01
DecayedCoordinateOf(x) ==
    The({[value |-> d, small |-> FloatLt(DyAbs(d), SnapThreshold)] :
         d \in {FloatMul(x, DecayFactor)}})

\* the coordinates of the detections of AppFaceLists and of the centre
EdgeCoordinates ==
    {DyZero} \cup UNION { {p.x, p.y} : p \in {DetectedTable[input] : input \in DOMAIN DetectedTable} }

\* the coordinates of S and their next n values under x *= 0.95
RECURSIVE DecayChain(_, _)
DecayChain(S, n) ==
    IF n = 0 THEN S
    ELSE The({DecayChain(next, n - 1) : next \in {S \cup {DecayedCoordinateOf(x).value : x \in S}}})

\* the coordinates the detections of AppFaceLists and MaxDecay polls without
\* a face lead to
KnownCoordinates == DecayChain(EdgeCoordinates, MaxDecay + 1)

\* their decay steps, computed once
DecayTable == [x \in KnownCoordinates |-> DecayedCoordinateOf(x)] @@ <<>>

DecayedCoordinate(x) ==
    The({IF x \in DOMAIN table THEN table[x] ELSE DecayedCoordinateOf(x) : table \in {DecayTable}})

\* mutant of DecayedPosition: "or" for "and" at line 100
DecayedPosition_SnapsEither(p) ==
    LET x == DecayedCoordinate(p.x)
        y == DecayedCoordinate(p.y)
    IN  IF x.small \/ y.small
        THEN Position(DyZero, DyZero)
        ELSE Position(x.value, y.value)

\* lines 97-103: one step of the return to the centre
DecayedPosition(p) ==
    LET x == DecayedCoordinate(p.x)
        y == DecayedCoordinate(p.y)
    IN  IF x.small /\ y.small
        THEN Position(DyZero, DyZero)
        ELSE Position(x.value, y.value)

\* The steps of get_face_position after cap.read() returned (lines 53-109).
\* They read and write self.last_face_position only, whatever became of the
\* capture in the meantime.

\* cap.read() gave ret False (lines 53-54)
read_gave_no_frame ==
    /\ face_ret' = last_face_position
    /\ face_op' = "no_frame"
    /\ UNCHANGED <<cap, last_face_position, decay_from, decay_k>>

\* cvtColor or detectMultiScale raises (lines 107-109)
detection_raised ==
    /\ face_ret' = last_face_position
    /\ face_op' = "error"
    /\ UNCHANGED <<cap, last_face_position, decay_from, decay_k>>

\* at least one face detected (lines 67-92)
face_detected(frame, faces) ==
    /\ Len(faces) > 0
    /\ LET p == DetectedPosition(frame, faces)
       IN  /\ last_face_position' = p
           /\ face_ret' = p
           /\ decay_from' = p
    /\ decay_k' = 0
    /\ face_op' = "detected"
    /\ UNCHANGED cap

\* no face detected, a position is stored (lines 93-104)
no_face_decay ==
    /\ last_face_position.some
    /\ decay_k < MaxDecay
    /\ last_face_position' = DecayedPosition(last_face_position)
    /\ face_ret' = last_face_position'
    /\ decay_k' = decay_k + 1
    /\ face_op' = "decay"
    /\ UNCHANGED <<cap, decay_from>>

\* no face detected, nothing stored yet (lines 93-95, 105)
no_face_default ==
    /\ ~last_face_position.some
    /\ face_ret' = Position(DyZero, DyZero)
    /\ face_op' = "default"
    /\ UNCHANGED <<cap, last_face_position, decay_from, decay_k>>

\* Whole calls of get_face_position, one step each.

\* get_face_position with self.cap None (lines 47-48)
get_face_position_no_camera ==
    /\ cap = "none"
    /\ face_ret' = NoPosition
    /\ face_op' = "no_camera"
    /\ UNCHANGED <<cap, last_face_position, decay_from, decay_k>>

\* self.cap was released by cleanup but is not None: line 47 lets the call
\* through, cap.read() at line 52 reads the released capture and gives ret
\* False (lines 52-54)
get_face_position_released ==
    /\ cap = "released"
    /\ face_ret' = last_face_position
    /\ face_op' = "read_released"
    /\ UNCHANGED <<cap, last_face_position, decay_from, decay_k>>

\* the capture is open from line 47 to the return
get_face_position_no_frame == cap = "open" /\ read_gave_no_frame
get_face_position_error == cap = "open" /\ detection_raised
get_face_position_detected(frame, faces) == cap = "open" /\ face_detected(frame, faces)
get_face_position_decay == cap = "open" /\ no_face_decay
get_face_position_default == cap = "open" /\ no_face_default

\* FaceTracking.__init__ (lines 13-39); the webcam opens or not
FaceInit ==
    /\ cap \in {"none", "open"}
    /\ last_face_position = NoPosition
    /\ face_ret = NoPosition
    /\ face_op = "none"
    /\ decay_from = NoPosition
    /\ decay_k = 0

(***************************************************************************)
(* DeskbotGUI                                                              *)
(***************************************************************************)
\* gui.py:224  "smoothing = 0.15"
SmoothingFactor == FloatOf([num |-> 15, den |-> 100])
\* gui.py:253  "max_movement = 15"
MaxMovement == 15
\* its value as a float, in  x * max_movement
MaxMovementFloat == FloatOf(RatInt(MaxMovement))
\* lines 254-255: x * max_movement for a coordinate x of the face tracker
EyeTargetOf(x) == FloatMul(x, MaxMovementFloat)
\* the products for the coordinates the face tracker is known to hand over,
\* computed once
EyeTargetTable == [x \in KnownCoordinates |-> EyeTargetOf(x)] @@ <<>>
EyeTarget(x) ==
    The({IF x \in DOMAIN table THEN table[x] ELSE EyeTargetOf(x) : table \in {EyeTargetTable}})
\* gui.py:232  "if self.blink_timer > 150"
BlinkStart == 150
\* gui.py:234  "if self.blink_timer > 155"
BlinkEnd == 155

\* the flows of control: the GUI event loop (main thread), the voice thread and
\* the face thread
SharedFields == {"listening", "target_eye_x", "target_eye_y", "expression", "status_text"}

Status(kind, text) == [kind |-> kind, text |-> text]

\* flow writes the shared fields fields
Wrote(flow, fields) ==
    [f \in SharedFields |-> IF f \in fields THEN writers[f] \cup {flow} ELSE writers[f]]

\* mutant of Smoothed: the offset is not subtracted from the target
Smoothed_NoDelta(offset, target) == FloatAdd(offset, FloatMul(target, SmoothingFactor))

\* lines 225-228: offset += (target - offset) * smoothing
Smoothed(offset, target) ==
    FloatAdd(offset, FloatMul(FloatSub(target, offset), SmoothingFactor))

\* mutant of BlinkingAfter: ">=" for ">" at line 232
BlinkingAfter_OffByOne(timer, blinking) ==
    IF timer + 1 >= BlinkStart
    THEN (IF timer + 1 > BlinkEnd THEN FALSE ELSE TRUE)
    ELSE blinking

\* lines 231-236: the blink timer after one more frame
BlinkTimerAfter(timer) == IF timer + 1 > BlinkEnd THEN 0 ELSE timer + 1
BlinkingAfter(timer, blinking) ==
    IF timer + 1 > BlinkStart
    THEN (IF timer + 1 > BlinkEnd THEN FALSE ELSE TRUE)
    ELSE blinking

\* draw_face (lines 96-219): the canvas is cleared and redrawn by the calling flow
draw_face(flow) == widget_flows' = widget_flows \cup {flow}

\* animate (lines 221-242), run by flow, while fewer than limit frames were drawn;
\* lines 227-228 repeat the float operations of lines 225-226, which give the same
\* float when the right eye's offset is the left eye's
animate(flow, limit) ==
    /\ ticks < limit
    /\ left_eye_x'  = Smoothed(left_eye_x, target_eye_x)
    /\ left_eye_y'  = Smoothed(left_eye_y, target_eye_y)
    /\ right_eye_x' = IF right_eye_x = left_eye_x THEN left_eye_x'
                       ELSE Smoothed(right_eye_x, target_eye_x)
    /\ right_eye_y' = IF right_eye_y = left_eye_y THEN left_eye_y'
                       ELSE Smoothed(right_eye_y, target_eye_y)
    /\ blink_timer' = BlinkTimerAfter(blink_timer)
    /\ is_blinking' = BlinkingAfter(blink_timer, is_blinking)
    /\ draw_face(flow)
    /\ ticks' = ticks + 1
    /\ UNCHANGED <<target_eye_x, target_eye_y, expression, expression_setter, status_text,
                   button_text, writers, target_tick, target_from_rest>>

\* update_eye_position (lines 244-255), called by flow
update_eye_position(flow, position) ==
    /\ IF position.some
       THEN /\ target_eye_x' = EyeTarget(position.x)
            /\ target_eye_y' = EyeTarget(position.y)
            /\ writers' = Wrote(flow, {"target_eye_x", "target_eye_y"})
       ELSE UNCHANGED <<target_eye_x, target_eye_y, writers>>
    /\ IF <<target_eye_x', target_eye_y'>> # <<target_eye_x, target_eye_y>>
       THEN /\ target_tick' = ticks
            /\ target_from_rest' = (eye_vars = <<DyZero, DyZero, DyZero, DyZero>>)
       ELSE UNCHANGED <<target_tick, target_from_rest>>
    /\ UNCHANGED <<eye_vars, expression, expression_setter, blink_timer, is_blinking,
                   status_text, button_text, ticks, widget_flows>>

\* set_expression (lines 257-263), called by flow
set_expression(flow, e) ==
    /\ expression' = e
    /\ expression_setter' = flow
    /\ writers' = Wrote(flow, {"expression"})
    /\ UNCHANGED <<eye_vars, target_eye_x, target_eye_y, blink_timer, is_blinking, status_text,
                   button_text, ticks, target_tick, target_from_rest, widget_flows>>

\* update_status (lines 265-267), called by flow: status_label.configure
update_status(flow, status) ==
    /\ status_text' = status
    /\ widget_flows' = widget_flows \cup {flow}
    /\ writers' = Wrote(flow, {"status_text"})
    /\ UNCHANGED <<eye_vars, target_eye_x, target_eye_y, expression, expression_setter,
                   blink_timer, is_blinking, button_text, ticks, target_tick, target_from_rest>>

\* on_toggle_listening, after the callback returned (lines 277-282):
\* listen_button.configure
toggle_button_text(flow) ==
    /\ button_text' = IF button_text = "Start Listening" THEN "Stop Listening"
                      ELSE "Start Listening"
    /\ widget_flows' = widget_flows \cup {flow}
    /\ UNCHANGED <<eye_vars, target_eye_x, target_eye_y, expression, expression_setter,
                   blink_timer, is_blinking, status_text, ticks, target_tick, target_from_rest,
                   writers>>

\* DeskbotGUI.__init__ (lines 14-45): the fields of lines 26-36, create_ui, and
\* the first animate call of line 45, which leaves blink_timer = 1
GuiInit ==
    /\ left_eye_x = DyZero /\ left_eye_y = DyZero
    /\ right_eye_x = DyZero /\ right_eye_y = DyZero
    /\ target_eye_x = DyZero /\ target_eye_y = DyZero
    /\ expression = "normal"
    /\ expression_setter = "none"
    /\ blink_timer = BlinkTimerAfter(0)
    /\ is_blinking = BlinkingAfter(0, FALSE)
    /\ status_text = Status("Ready", "")
    /\ button_text = "Start Listening"
    /\ ticks = 1
    /\ target_tick = 0
    /\ target_from_rest = TRUE
    /\ widget_flows = {}
    /\ writers = [f \in SharedFields |-> {}]

(***************************************************************************)
(* FaceTracking.cleanup                                                    *)
(***************************************************************************)
\* cleanup (lines 111-115): release the capture; self.cap keeps the object
cleanup ==
    /\ cap' = IF cap = "open" THEN "released" ELSE cap
    /\ UNCHANGED <<last_face_position, face_ret, face_op, decay_from, decay_k>>

(***************************************************************************)
(* Deskbot: the main thread, the voice thread, the face thread             *)
(***************************************************************************)
\* what VoiceRecognition.listen returns: None, or the recognised text
NoText == "<None>"
ListenResults == Inputs \cup {"", NoText}
\* Python's truth value of  text
Truthy(text) == text # NoText /\ text # ""

\* the order of the calls of lines 55-65
VoiceCalls == <<"get_response", "talking", "speak", "normal">>

\* the process has not ended: its threads run
Alive == gpc # "ended"

\* ---- main thread: Deskbot.run (lines 105-123) and the GUI event loop

\* run, lines 107-113: set the callback, start the voice thread (a daemon thread,
\* which runs from then on)
MainRun ==
    /\ gpc = "run"
    /\ gpc' = "start_face"
    /\ vpc' = "top"
    /\ UNCHANGED <<conv_vars, face_vars, gui_vars, flag_vars, toggles,
                   v_text, v_response, v_gate, v_trace, v_raised, v_iters, floop_vars>>

\* run, lines 114-118: start the face thread and enter the event loop
MainStartFaceThread ==
    /\ gpc = "start_face"
    /\ gpc' = "mainloop"
    /\ fpc' = "top"
    /\ UNCHANGED <<conv_vars, face_vars, gui_vars, flag_vars, toggles, voice_vars,
                   f_position, f_polls>>

\* the event loop runs the animate callback scheduled by root.after
MainAnimate ==
    /\ gpc = "mainloop"
    /\ animate("gui", MaxGuiTicks)
    /\ UNCHANGED <<conv_vars, face_vars, app_vars>>

\* a click on the listen button: on_toggle_listening (gui.py:273-276) calls
\* toggle_listening, which flips the flag (main.py:97)
MainToggleListening ==
    /\ gpc = "mainloop"
    /\ toggles < MaxToggles
    /\ listening' = ~listening
    /\ writers' = Wrote("gui", {"listening"})
    /\ toggles' = toggles + 1
    /\ gpc' = "toggle_status"
    /\ UNCHANGED <<conv_vars, face_vars, eye_vars, target_eye_x, target_eye_y, expression,
                   expression_setter, blink_timer, is_blinking, status_text, button_text, ticks,
                   target_tick, target_from_rest, widget_flows,
                   running, voice_enabled, face_tracking_enabled, voice_vars, floop_vars>>

\* toggle_listening, lines 99 and 102
MainToggleStatus ==
    /\ gpc = "toggle_status"
    /\ update_status("gui", IF listening THEN Status("Listening...", "")
                            ELSE Status("Not listening", ""))
    /\ gpc' = "toggle_expression"
    /\ UNCHANGED <<conv_vars, face_vars, flag_vars, toggles, voice_vars, floop_vars>>

\* mutant of MainToggleExpression: line 100 sets "normal" as line 103 does
MainToggleExpression_AlwaysNormal ==
    /\ gpc = "toggle_expression"
    /\ set_expression("gui", "normal")
    /\ gpc' = "toggle_button"
    /\ UNCHANGED <<conv_vars, face_vars, flag_vars, toggles, voice_vars, floop_vars>>

\* toggle_listening, lines 100 and 103
MainToggleExpression ==
    /\ gpc = "toggle_expression"
    /\ set_expression("gui", IF listening THEN "happy" ELSE "normal")
    /\ gpc' = "toggle_button"
    /\ UNCHANGED <<conv_vars, face_vars, flag_vars, toggles, voice_vars, floop_vars>>

\* back in on_toggle_listening (gui.py:277-282)
MainToggleButton ==
    /\ gpc = "toggle_button"
    /\ toggle_button_text("gui")
    /\ gpc' = "mainloop"
    /\ UNCHANGED <<conv_vars, face_vars, flag_vars, toggles, voice_vars, floop_vars>>

\* the window is closed, Quit is clicked or KeyboardInterrupt arrives:
\* gui.run() returns or raises (lines 117-120)
MainQuit ==
    /\ gpc = "mainloop"
    /\ gpc' = "finally"
    /\ UNCHANGED <<conv_vars, face_vars, gui_vars, flag_vars, toggles, voice_vars, floop_vars>>

\* line 122: self.running = False
MainClearRunning ==
    /\ gpc = "finally"
    /\ running' = FALSE
    /\ gpc' = "cleanup"
    /\ UNCHANGED <<conv_vars, face_vars, gui_vars, listening, voice_enabled,
                   face_tracking_enabled, toggles, voice_vars, floop_vars>>

\* line 123: self.face_tracking.cleanup()
MainCleanup ==
    /\ gpc = "cleanup"
    /\ cleanup
    /\ gpc' = "exited"
    /\ UNCHANGED <<conv_vars, gui_vars, flag_vars, toggles, voice_vars, floop_vars>>

\* lines 136-140: run was the last call of main, the main thread ends and with it
\* the process: the voice and face threads are daemon threads (lines 73, 92),
\* nothing joins them, and they are stopped wherever they are
MainExit ==
    /\ gpc = "exited"
    /\ gpc' = "ended"
    /\ UNCHANGED <<conv_vars, face_vars, gui_vars, flag_vars, toggles, voice_vars, floop_vars>>

\* ---- voice thread: voice_loop (lines 44-71)

\* line 45: while self.running
VoiceTop ==
    /\ Alive
    /\ vpc = "top"
    /\ vpc' = IF running THEN "check" ELSE "done"
    /\ v_text' = NoText
    /\ v_response' = NoText
    /\ v_gate' = FALSE
    /\ v_trace' = <<>>
    /\ v_raised' = FALSE
    /\ UNCHANGED <<conv_vars, face_vars, gui_vars, flag_vars, main_vars, v_iters, floop_vars>>

\* line 46: if self.voice_enabled and self.listening
VoiceCheck ==
    /\ Alive
    /\ vpc = "check"
    /\ v_gate' = (voice_enabled /\ listening)
    /\ vpc' = IF voice_enabled /\ listening THEN "listen" ELSE "sleep"
    /\ UNCHANGED <<conv_vars, face_vars, gui_vars, flag_vars, main_vars,
                   v_text, v_response, v_trace, v_raised, v_iters, floop_vars>>

\* line 71: time.sleep(0.1)
VoiceSleep ==
    /\ Alive
    /\ vpc = "sleep"
    /\ vpc' = "top"
    /\ UNCHANGED <<conv_vars, face_vars, gui_vars, flag_vars, main_vars,
                   v_text, v_response, v_gate, v_trace, v_raised, v_iters, floop_vars>>

\* lines 49-50: text = listen(); if text  (listen catches what it raises,
\* voice_recognition.py:32-67)
VoiceListen(text) ==
    /\ Alive
    /\ vpc = "listen"
    /\ Truthy(text) => v_iters < MaxVoiceIters
    /\ v_text' = text
    /\ v_iters' = IF Truthy(text) THEN v_iters + 1 ELSE v_iters
    /\ vpc' = IF Truthy(text) THEN "status" ELSE "top"
    /\ UNCHANGED <<conv_vars, face_vars, gui_vars, flag_vars, main_vars,
                   v_response, v_gate, v_trace, v_raised, floop_vars>>

\* line 52: self.gui.update_status(f"Heard: {text}"), on the voice thread
VoiceStatus ==
    /\ Alive
    /\ vpc = "status"
    /\ update_status("voice", Status("Heard", v_text))
    /\ vpc' = "respond"
    /\ UNCHANGED <<conv_vars, face_vars, flag_vars, main_vars,
                   v_text, v_response, v_gate, v_trace, v_raised, v_iters, floop_vars>>

\* line 52 raises: Tk refuses or fails a call made off the main thread
VoiceStatusRaises ==
    /\ Alive
    /\ vpc = "status"
    /\ vpc' = "except"
    /\ v_raised' = TRUE
    /\ UNCHANGED <<conv_vars, face_vars, gui_vars, flag_vars, main_vars,
                   v_text, v_response, v_gate, v_trace, v_iters, floop_vars>>

\* line 55: response = self.openai_integration.get_response(text): the call is
\* made; with no client it returns at once, otherwise it waits for the backend
VoiceRespond ==
    /\ Alive
    /\ vpc = "respond"
    /\ \/ /\ get_response_unconfigured(v_text)
          /\ v_response' = conv_ret'
          /\ vpc' = "talk"
       \/ /\ get_response_send(v_text)
          /\ vpc' = "backend"
          /\ UNCHANGED v_response
    /\ v_trace' = Append(v_trace, "get_response")
    /\ UNCHANGED <<face_vars, gui_vars, flag_vars, main_vars, v_text, v_gate, v_raised,
                   v_iters, floop_vars>>

\* line 55, the backend call is over: get_response returns the reply, or the
\* error apology when the call raised (get_response catches it)
VoiceResponded ==
    /\ Alive
    /\ vpc = "backend"
    /\ \/ \E assistant_message \in Replies : get_response_ok(assistant_message)
       \/ get_response_raise
    /\ v_response' = conv_ret'
    /\ vpc' = "talk"
    /\ UNCHANGED <<face_vars, gui_vars, flag_vars, main_vars, v_text, v_gate, v_trace,
                   v_raised, v_iters, floop_vars>>

\* line 59: self.gui.set_expression("talking")
VoiceTalking ==
    /\ Alive
    /\ vpc = "talk"
    /\ set_expression("voice", "talking")
    /\ v_trace' = Append(v_trace, "talking")
    /\ vpc' = "speak"
    /\ UNCHANGED <<conv_vars, face_vars, flag_vars, main_vars,
                   v_text, v_response, v_gate, v_raised, v_iters, floop_vars>>

\* mutant of VoiceSpeak: speak lets the engine's exception through
VoiceSpeak_Raises ==
    /\ Alive
    /\ vpc = "speak"
    /\ v_trace' = Append(v_trace, "speak")
    /\ v_raised' = TRUE
    /\ vpc' = "except"
    /\ UNCHANGED <<conv_vars, face_vars, gui_vars, flag_vars, main_vars,
                   v_text, v_response, v_gate, v_iters, floop_vars>>

\* line 62: self.tts.speak(response); speak returns on every path
\* (text_to_speech.py:46-55: no engine, spoken, or the exception caught)
VoiceSpeak ==
    /\ Alive
    /\ vpc = "speak"
    /\ v_trace' = Append(v_trace, "speak")
    /\ vpc' = "normal"
    /\ UNCHANGED <<conv_vars, face_vars, gui_vars, flag_vars, main_vars,
                   v_text, v_response, v_gate, v_raised, v_iters, floop_vars>>

\* mutant of VoiceNormal: the voice loop also stops listening after it answered
VoiceNormal_ClearsListening ==
    /\ Alive
    /\ vpc = "normal"
    /\ expression' = "normal"
    /\ expression_setter' = "voice"
    /\ listening' = FALSE
    /\ writers' = Wrote("voice", {"expression", "listening"})
    /\ v_trace' = Append(v_trace, "normal")
    /\ vpc' = "top"
    /\ UNCHANGED <<conv_vars, face_vars, eye_vars, target_eye_x, target_eye_y, blink_timer,
                   is_blinking, status_text, button_text, ticks, target_tick,
                   target_from_rest, widget_flows,
                   running, voice_enabled, face_tracking_enabled, main_vars,
                   v_text, v_response, v_gate, v_raised, v_iters, floop_vars>>

\* line 65: self.gui.set_expression("normal")
VoiceNormal ==
    /\ Alive
    /\ vpc = "normal"
    /\ set_expression("voice", "normal")
    /\ v_trace' = Append(v_trace, "normal")
    /\ vpc' = "top"
    /\ UNCHANGED <<conv_vars, face_vars, flag_vars, main_vars,
                   v_text, v_response, v_gate, v_raised, v_iters, floop_vars>>

\* lines 67-69: except Exception: update_status(f"Error: {e}")
VoiceExcept ==
    /\ Alive
    /\ vpc = "except"
    /\ update_status("voice", Status("Error", "update_status failed"))
    /\ vpc' = "top"
    /\ UNCHANGED <<conv_vars, face_vars, flag_vars, main_vars,
                   v_text, v_response, v_gate, v_trace, v_raised, v_iters, floop_vars>>

\* line 69 raises as line 52 did: nothing catches it, the thread ends
VoiceExceptRaises ==
    /\ Alive
    /\ vpc = "except"
    /\ vpc' = "dead"
    /\ UNCHANGED <<conv_vars, face_vars, gui_vars, flag_vars, main_vars,
                   v_text, v_response, v_gate, v_trace, v_raised, v_iters, floop_vars>>

\* ---- face thread: face_tracking_loop (lines 78-90)

\* line 79: while self.running
FaceTop ==
    /\ Alive
    /\ fpc = "top"
    /\ fpc' = IF running THEN "check" ELSE "done"
    /\ f_position' = NoPosition
    /\ UNCHANGED <<conv_vars, face_vars, gui_vars, flag_vars, main_vars, voice_vars, f_polls>>

\* line 80: if self.face_tracking_enabled
FaceCheck ==
    /\ Alive
    /\ fpc = "check"
    /\ fpc' = IF face_tracking_enabled THEN "poll" ELSE "sleep"
    /\ UNCHANGED <<conv_vars, face_vars, gui_vars, flag_vars, main_vars, voice_vars,
                   f_position, f_polls>>

\* line 90: time.sleep(0.1)
FaceSleep ==
    /\ Alive
    /\ fpc = "sleep"
    /\ fpc' = "top"
    /\ UNCHANGED <<conv_vars, face_vars, gui_vars, flag_vars, main_vars, voice_vars,
                   f_position, f_polls>>

\* line 83: get_face_position is called.  With self.cap None it returns None
\* at once (face_tracking.py:47-48) and line 84 skips the update.  Otherwise
\* cap.read() is called and returns (face_tracking.py:52-54): on the capture
\* cleanup released, or on the open one without a frame, get_face_position
\* returns the stored position (then main.py:84); on the open one with a
\* frame, cvtColor and detectMultiScale start (lines 57-65) and the thread is
\* inside them until FaceDetect
FacePoll ==
    /\ Alive
    /\ fpc = "poll"
    /\ \/ /\ get_face_position_no_camera
          /\ f_position' = face_ret'
          /\ fpc' = "top"
       \/ /\ get_face_position_released
          /\ f_position' = face_ret'
          /\ fpc' = IF face_ret'.some THEN "update" ELSE "top"
       \/ /\ cap = "open"
          /\ read_gave_no_frame
          /\ f_position' = face_ret'
          /\ fpc' = IF face_ret'.some THEN "update" ELSE "top"
       \/ /\ cap = "open"
          /\ fpc' = "detect"
          /\ UNCHANGED <<face_vars, f_position>>
    /\ UNCHANGED <<conv_vars, gui_vars, flag_vars, main_vars, voice_vars, f_polls>>

\* the detection on the frame read ends (face_tracking.py:57-65) and the rest
\* of get_face_position runs (lines 67-109), then main.py:84; the frame is
\* one of Frames, the faces found one of AppFaceLists or none.  The main
\* thread may have cleared running and released the capture since the frame
\* was read: the position is stored and returned all the same
\* (the polls that find or follow a face are counted and bounded)
FaceDetect ==
    /\ Alive
    /\ fpc = "detect"
    /\ \/ detection_raised
       \/ \E frame \in Frames, faces \in AppFaceLists : face_detected(frame, faces)
       \/ no_face_decay
       \/ no_face_default
    /\ face_op' \in {"detected", "decay"} => f_polls < MaxFacePolls
    /\ f_position' = face_ret'
    /\ f_polls' = IF face_op' \in {"detected", "decay"} THEN f_polls + 1 ELSE f_polls
    /\ fpc' = IF face_ret'.some THEN "update" ELSE "top"
    /\ UNCHANGED <<conv_vars, gui_vars, flag_vars, main_vars, voice_vars>>

\* line 86: self.gui.update_eye_position(face_position)
FaceUpdate ==
    /\ Alive
    /\ fpc = "update"
    /\ update_eye_position("face", f_position)
    /\ fpc' = "top"
    /\ UNCHANGED <<conv_vars, face_vars, flag_vars, main_vars, voice_vars, f_position, f_polls>>

\* Deskbot.__init__ (lines 21-40); VOICE_ENABLED and FACE_TRACKING_ENABLED are
\* set or not.  Both threads are yet to be started by run.
AppInit ==
    /\ running = TRUE
    /\ listening = FALSE
    /\ voice_enabled \in BOOLEAN
    /\ face_tracking_enabled \in BOOLEAN
    /\ gpc = "run"
    /\ toggles = 0
    /\ vpc = "unstarted"
    /\ v_text = NoText
    /\ v_response = NoText
    /\ v_gate = FALSE
    /\ v_trace = <<>>
    /\ v_raised = FALSE
    /\ v_iters = 0
    /\ fpc = "unstarted"
    /\ f_position = NoPosition
    /\ f_polls = 0

(***************************************************************************)
(* Specifications                                                          *)
(***************************************************************************)
Init ==
    /\ ConvInit
    /\ FaceInit
    /\ GuiInit
    /\ AppInit

\* the whole application: the main thread, the voice thread and the face thread
\* interleave step by step
MainStep ==
    \/ MainRun
    \/ MainStartFaceThread
    \/ MainAnimate
    \/ MainToggleListening
    \/ MainToggleStatus
    \/ MainToggleExpression
    \/ MainToggleButton
    \/ MainQuit
    \/ MainClearRunning
    \/ MainCleanup
    \/ MainExit

VoiceStep ==
    \/ VoiceTop
    \/ VoiceCheck
    \/ VoiceSleep
    \/ \E text \in ListenResults : VoiceListen(text)
    \/ VoiceStatus
    \/ VoiceStatusRaises
    \/ VoiceRespond
    \/ VoiceResponded
    \/ VoiceTalking
    \/ VoiceSpeak
    \/ VoiceNormal
    \/ VoiceExcept
    \/ VoiceExceptRaises

FaceStep ==
    \/ FaceTop
    \/ FaceCheck
    \/ FaceSleep
    \/ FacePoll
    \/ FaceDetect
    \/ FaceUpdate

Next ==
    \/ MainStep
    \/ VoiceStep
    \/ FaceStep

Spec == Init /\ [][Next]_vars

\* once gui.run() has returned, run's finally block and the end of main follow
MainShutdown ==
    \/ MainClearRunning
    \/ MainCleanup
    \/ MainExit

\* the application under a fair scheduler: while the process lives each started
\* thread gets its turn and every blocking call (listen, the backend request,
\* speak, cap.read, sleep) returns; once gui.run() has returned the main thread
\* goes on to the end of the process, after which no thread takes a step.
\* Nothing obliges the event loop: the user may never click or quit.
SpecLive ==
    Init /\ [][Next]_vars /\ WF_vars(VoiceStep) /\ WF_vars(FaceStep) /\ WF_vars(MainShutdown)

\* the conversation alone: get_response calls, each waiting for the backend
\* and then returning or raising, and reset_conversation calls at any time
NextConv ==
    \/ \E user_input \in Inputs :
          get_response_unconfigured(user_input) /\ UNCHANGED <<face_vars, gui_vars, app_vars>>
    \/ \E user_input \in Inputs :
          get_response_send(user_input) /\ UNCHANGED <<face_vars, gui_vars, app_vars>>
    \/ \E assistant_message \in Replies :
          get_response_ok(assistant_message) /\ UNCHANGED <<face_vars, gui_vars, app_vars>>
    \/ get_response_raise /\ UNCHANGED <<face_vars, gui_vars, app_vars>>
    \/ reset_conversation /\ UNCHANGED <<face_vars, gui_vars, app_vars>>

SpecConv == Init /\ [][NextConv]_vars

\* the face locator alone: any sequence of polls
NextFace ==
    \/ get_face_position_no_camera /\ UNCHANGED <<conv_vars, gui_vars, app_vars>>
    \/ get_face_position_no_frame /\ UNCHANGED <<conv_vars, gui_vars, app_vars>>
    \/ get_face_position_error /\ UNCHANGED <<conv_vars, gui_vars, app_vars>>
    \/ \E frame \in Frames, faces \in FaceLists :
          get_face_position_detected(frame, faces) /\ UNCHANGED <<conv_vars, gui_vars, app_vars>>
    \/ get_face_position_decay /\ UNCHANGED <<conv_vars, gui_vars, app_vars>>
    \/ get_face_position_default /\ UNCHANGED <<conv_vars, gui_vars, app_vars>>

SpecFace == Init /\ [][NextFace]_vars

\* the positions handed to update_eye_position while the eyes are animated
SmoothPositions ==
    { Position(FloatOf(RatInt(1)), FloatOf(RatInt(-1))),
      Position(FloatDiv(-1, 2), FloatDiv(1, 2)),
      Position(FloatDiv(9, 10), FloatDiv(1, 4)) }

\* the eyes alone, in one configuration of the application: the face loop
\* stores targets during the first frames, the event loop runs animate
InitSmooth == Init /\ client /\ cap = "open" /\ voice_enabled /\ face_tracking_enabled

NextSmooth ==
    \/ \E position \in SmoothPositions :
          /\ ticks < MaxSmoothStart
          /\ update_eye_position("face", position)
          /\ UNCHANGED <<conv_vars, face_vars, app_vars>>
    \/ animate("gui", MaxSmoothTicks) /\ UNCHANGED <<conv_vars, face_vars, app_vars>>

SpecSmooth == InitSmooth /\ [][NextSmooth]_vars

\* the animation timer alone: the event loop runs animate every 20 ms
NextBlink ==
    animate("gui", MaxTicks) /\ UNCHANGED <<conv_vars, face_vars, app_vars>>

SpecBlink == Init /\ [][NextBlink]_vars

(***************************************************************************)
(* Properties                                                              *)
(***************************************************************************)

\* ---- conversation history (SpecConv)

\* C1: after any sequence of get_response and reset_conversation calls
\* conversation_history holds at most 19 entries.
\* Violated: a raising backend call leaves the appended user message and the
\* trim of lines 76-78 is not reached.
C1_HistoryAtMostCap == conv_pc = "idle" => Len(conversation_history) <= HistoryCap

\* no user-role entry is left without an assistant reply right after it
NoDanglingUser(h) ==
    \A i \in 1..Len(h) :
        h[i].role = "user" => (i < Len(h) /\ h[i + 1].role = "assistant")

\* C2: when the backend call raises, get_response returns the error apology and
\* leaves no user entry without an assistant reply.
\* Violated: the user message appended at line 53 is not rolled back.
C2_FailureLeavesNoDanglingUser ==
    conv_op = "raise" =>
        /\ conv_ret = ErrorReply
        /\ NoDanglingUser(conversation_history)

\* C3: entry 0 is always the system message, and a successful get_response that
\* passes 19 entries leaves the old entry 0 followed by the 18 most recently
\* appended entries (the tail of the history the reply met, which ends with the
\* user message, and the reply) in their order.
C3_TrimKeepsSystemAndRecent ==
    /\ conversation_history[1] = SystemMessage
    /\ (conv_op = "ok" /\ Len(conv_pre) + 1 > HistoryCap) =>
          LET n == Len(conv_pre)
          IN  /\ Len(conversation_history) = HistoryCap
              /\ conversation_history[1] = conv_pre[1]
              /\ \A i \in 2..(HistoryCap - 1) :
                    conversation_history[i] = conv_pre[n - (HistoryCap - 1) + i]
              /\ conversation_history[HistoryCap - 1].role = "user"
              /\ conversation_history[HistoryCap] = AssistantMessage(conv_ret)
    /\ (conv_op = "ok" /\ Len(conv_pre) + 1 <= HistoryCap) =>
          conversation_history = Append(conv_pre, AssistantMessage(conv_ret))

\* a success that trimmed a history longer than the cap (after failed calls)
C3_Witness ==
    /\ conv_op = "ok"
    /\ Len(conv_pre) = MaxHistory
    /\ Len(conversation_history) = HistoryCap

\* C4: with no client, get_response returns the 'not configured' apology, calls
\* no backend and leaves the history as it was, after any earlier calls.
C4_UnconfiguredIsInert ==
    ~client =>
        /\ conv_op \in {"none", "unconfigured", "reset"}
        /\ ~backend_called
        /\ conversation_history = <<SystemMessage>>
        /\ conv_op = "unconfigured" =>
              /\ conv_ret = NotConfiguredReply
              /\ conversation_history = conv_pre

C4_Witness == ~client /\ conv_op = "unconfigured" /\ conv_ret = NotConfiguredReply

\* ---- blink cycle (SpecBlink)

\* the length of one blink cycle in frames
BlinkPeriod == BlinkEnd + 1

\* C5: counting animate calls from blink_timer = 0, is_blinking is false after
\* frames 1..150 of a cycle, true after frames 151..155, and frame 156 ends the
\* cycle with is_blinking false and blink_timer 0; blink_timer never exceeds 155.
C5_BlinkCycle ==
    LET frame == ticks % BlinkPeriod
    IN  /\ blink_timer = frame
        /\ blink_timer <= BlinkEnd
        /\ is_blinking = (frame \in (BlinkStart + 1)..BlinkEnd)

\* the second cycle's first blink frame: the cycle has repeated
C5_Witness ==
    /\ ticks = 2 * BlinkPeriod - 5
    /\ blink_timer = BlinkStart + 1
    /\ is_blinking

\* ---- face position (SpecFace)

\* the claim's 0.95, as the fraction 19/20
DecayRatio == Rat(95, 100)

\* table, continued by the next k powers of m
RECURSIVE NatPowersStep(_, _, _)
NatPowersStep(table, m, k) ==
    IF k = 0 THEN table
    ELSE The({NatPowersStep(next, m, k - 1) :
                 next \in {Append(table, NatMulSmall(table[Len(table)], m))}})

\* <<m^0, ..., m^n>>, continuing a table of the first powers sixteen at a time
RECURSIVE NatPowersFrom(_, _, _)
NatPowersFrom(table, m, n) ==
    IF Len(table) > n THEN table
    ELSE The({NatPowersFrom(next, m, n) :
                 next \in {NatPowersStep(table, m, Min(16, n + 1 - Len(table)))}})

NatPowers(m, n) == NatPowersFrom(<< <<1>> >>, m, n)

\* a * k for a natural number k of many digits
DyTimes(a, k) == The({Dyadic(x.neg, NatMulOf(y, x.man), x.exp) : x \in {a}, y \in {k}})

DecayNumPowers == NatPowers(DecayRatio.num, MaxDecay + 1)
DecayDenPowers == NatPowers(DecayRatio.den, MaxDecay + 1)

\* x - x0 * 0.95^k, times 20^k
DecayLawError(x, x0, k) ==
    DySub(DyTimes(x, DecayDenPowers[k + 1]), DyTimes(x0, DecayNumPowers[k + 1]))

\* x = x0 * 0.95^k
Scaled(x, x0, k) == DySign(DecayLawError(x, x0, k)) = 0

\* |x - x0 * 0.95^k| <= |x0| * 0.95^k * k * 2^-52
ScaledRounded(x, x0, k) ==
    DyCmp(DyAbs(DecayLawError(x, x0, k)),
          DyScale(DyTimes(DyAbs(x0), NatMulSmall(DecayNumPowers[k + 1], k)), -52)) <= 0

\* |x0 * 0.95^k| < 0.01:  |x0| * 19^k * 100 < 20^k
ScaledBelowThreshold(x0, k) ==
    DyCmp(DyTimes(DyAbs(x0), NatMulSmall(DecayNumPowers[k + 1], 100)),
          Dyadic(FALSE, DecayDenPowers[k + 1], 0)) < 0

BothBelowThreshold(p0, k) ==
    ScaledBelowThreshold(p0.x, k) /\ ScaledBelowThreshold(p0.y, k)

\* some poll up to the k-th found both scaled components below 0.01
Snapped(p0, k) == \E j \in 1..k : BothBelowThreshold(p0, j)

\* C6 as stated: k polls without a face after a position (x0, y0) was stored
\* leave exactly (x0 * 0.95^k, y0 * 0.95^k) stored while a component is at least
\* 0.01 in magnitude, and exactly (0, 0) from the first poll at which both are
\* below; the poll returns what it stored.
\* Violated: every poll multiplies by the float of 0.95 and rounds the product.
C6_DecayLawExact ==
    /\ decay_from.some =>
          IF Snapped(decay_from, decay_k)
          THEN last_face_position = Position(DyZero, DyZero)
          ELSE /\ last_face_position.some
               /\ Scaled(last_face_position.x, decay_from.x, decay_k)
               /\ Scaled(last_face_position.y, decay_from.y, decay_k)
    /\ face_op = "decay" => face_ret = last_face_position

\* C6, amended: k polls without a face after a position (x0, y0) was stored
\* leave (x0 * 0.95^k, y0 * 0.95^k) stored to within a relative error of
\* k * 2^-52 while a component of (x0 * 0.95^k, y0 * 0.95^k) is at least 0.01 in
\* magnitude, and exactly (0, 0) from the first poll at which both are below;
\* the poll returns what it stored.
C6_DecayLaw ==
    /\ decay_from.some =>
          IF Snapped(decay_from, decay_k)
          THEN last_face_position = Position(DyZero, DyZero)
          ELSE /\ last_face_position.some
               /\ ScaledRounded(last_face_position.x, decay_from.x, decay_k)
               /\ ScaledRounded(last_face_position.y, decay_from.y, decay_k)
    /\ face_op = "decay" => face_ret = last_face_position

\* three polls of decay from (1, -1): the stored x is 0.8573749999999999, the
\* float below the float nearest to 0.95^3 = 0.857375
C6_Witness ==
    /\ face_op = "decay"
    /\ decay_from = Position(FloatOf(RatInt(1)), FloatOf(RatInt(-1)))
    /\ decay_k = 3
    /\ last_face_position.x = DySub(FloatOf(Rat(6859, 8000)), Dyadic(FALSE, <<1>>, -53))
    /\ last_face_position.y = DyNeg(last_face_position.x)

InUnitRange(a) == ~FloatLt(a, FloatOf(RatInt(-1))) /\ ~FloatLt(FloatOf(RatInt(1)), a)

\* C7: every position returned and every position stored has both components
\* in [-1, 1].
C7_PositionInRange ==
    /\ last_face_position.some =>
          InUnitRange(last_face_position.x) /\ InUnitRange(last_face_position.y)
    /\ face_ret.some => InUnitRange(face_ret.x) /\ InUnitRange(face_ret.y)

\* a face beyond the right and top edges, clamped to (1, -1)
C7_Witness ==
    /\ face_op = "detected"
    /\ face_ret = Position(FloatOf(RatInt(1)), FloatOf(RatInt(-1)))
    /\ last_face_position = face_ret

\* ---- flows of control (Spec)

\* C8 as stated: no shared field is written by two different flows.
\* Violated: expression and the status text are written by the main thread
\* (toggle_listening) and by the voice thread (voice_loop).
C8_SingleWriterPerField ==
    \A f \in SharedFields : Cardinality(writers[f]) <= 1

\* C8, amended: the listening flag is written by the GUI flow alone and the gaze
\* target by the face loop alone; expression and the status text are written
\* by the GUI flow and the voice loop, never by the face loop.
C8_WritersOfSharedFields ==
    /\ writers["listening"] \subseteq {"gui"}
    /\ writers["target_eye_x"] \subseteq {"face"}
    /\ writers["target_eye_y"] \subseteq {"face"}
    /\ writers["expression"] \subseteq {"gui", "voice"}
    /\ writers["status_text"] \subseteq {"gui", "voice"}

\* every shared field has been written by each of its writers
C8_Witness ==
    /\ writers["listening"] = {"gui"}
    /\ writers["target_eye_x"] = {"face"}
    /\ writers["target_eye_y"] = {"face"}
    /\ writers["expression"] = {"gui", "voice"}
    /\ writers["status_text"] = {"gui", "voice"}

\* C9: only the GUI flow mutates widgets.
\* Violated: voice_loop calls update_status (status_label.configure) itself.
C9_WidgetsOnlyFromGuiFlow == widget_flows \subseteq {"gui"}

IsPrefix(s, t) == Len(s) <= Len(t) /\ s = SubSeq(t, 1, Len(s))
Prefix(t, n) == SubSeq(t, 1, n)

\* C10: in each iteration of the voice loop the calls made are a prefix of
\* get_response, set_expression("talking"), speak, set_expression("normal");
\* they are made only for a non-empty text heard after line 46 found
\* voice_enabled and listening true; an iteration that heard a text ends with
\* all four made, or with none when update_status raised before get_response;
\* and once talking is set the loop goes nowhere but through speak to
\* set_expression("normal").
C10_VoiceCallOrder ==
    /\ IsPrefix(v_trace, VoiceCalls)
    /\ v_trace # <<>> => v_gate /\ Truthy(v_text)
    /\ vpc \in {"status", "respond", "backend", "talk", "speak", "normal"} =>
          v_gate /\ Truthy(v_text)
    /\ vpc = "respond" => v_trace = <<>>
    /\ vpc = "backend" => v_trace = Prefix(VoiceCalls, 1) /\ conv_pc = "calling"
    /\ vpc = "talk" => v_trace = Prefix(VoiceCalls, 1) /\ v_response = conv_ret
    /\ vpc = "speak" => v_trace = Prefix(VoiceCalls, 2) /\ v_response = conv_ret
    /\ vpc = "normal" => v_trace = Prefix(VoiceCalls, 3)
    /\ v_trace \in {Prefix(VoiceCalls, 2), Prefix(VoiceCalls, 3)} => vpc \in {"speak", "normal"}
    /\ vpc \in {"except", "dead", "done", "sleep", "listen"} => v_trace = <<>>
    /\ (vpc = "top" /\ Truthy(v_text)) =>
          \/ v_trace = VoiceCalls
          \/ v_raised /\ v_trace = <<>>

\* an iteration that heard a text and made all four calls
C10_Witness ==
    /\ vpc = "top"
    /\ Truthy(v_text)
    /\ v_gate
    /\ v_trace = VoiceCalls

\* ---- shutdown (SpecLive)

\* a loop that has left its while statement, or a thread ended by an exception
VoiceEnded == vpc \in {"done", "dead"}
FaceEnded == fpc = "done"

\* C11: once running is cleared both loops end; a loop leaves its loop-top check
\* into a new iteration only when it found running true and leaves it for good
\* when it found running false; a loop that ended stays ended.
\* Violated: run clears running, releases the capture and returns without
\* joining the threads; main returns and the process ends while a loop is
\* still inside its iteration (in speak, in cap.read), so that loop never comes
\* back to its loop-top check and never leaves its while statement.
C11_LoopsTerminate ==
    /\ (~running) ~> (VoiceEnded /\ FaceEnded)
    /\ [][ /\ (vpc = "top" /\ vpc' # "top") => vpc' = (IF running THEN "check" ELSE "done")
           /\ (fpc = "top" /\ fpc' # "top") => fpc' = (IF running THEN "check" ELSE "done")
           /\ VoiceEnded => vpc' = vpc
           /\ FaceEnded => fpc' = fpc ]_vars

\* ---- exceptions in the voice loop (Spec)

\* C12: while running is true the voice loop is never ended by an exception.
\* Violated: the handler of lines 67-69 calls update_status itself; when that
\* call raises, as the call of line 52 just did, nothing catches it and the
\* thread ends with running still true.
C12_VoiceLoopSurvivesExceptions == running => vpc # "dead"

\* ---- eye smoothing (SpecSmooth)

\* 0.85 = 1 - 0.15, as the fraction 17/20
LawFactor == Rat(85, 100)

LawNumPowers == NatPowers(LawFactor.num, MaxSmoothTicks + 1)
LawDenPowers == NatPowers(LawFactor.den, MaxSmoothTicks + 1)

\* |target| * 2^-50: four units in the last place of the target, at most
RoundingSlack(target) == DyScale(DyAbs(target), -50)

\* offset - target * (1 - 0.85^n), times 20^n:
\* target * 17^n - (target - offset) * 20^n
SmoothLawError(offset, target, n) ==
    DySub(DyTimes(target, LawNumPowers[n + 1]),
          DyTimes(DySub(target, offset), LawDenPowers[n + 1]))

\* offset = target * (1 - 0.85^n)
SmoothLaw(offset, target, n) == DySign(SmoothLawError(offset, target, n)) = 0

\* |offset - target * (1 - 0.85^n)| <= |target| * 2^-50
SmoothLawRounded(offset, target, n) ==
    DyCmp(DyAbs(SmoothLawError(offset, target, n)),
          DyTimes(RoundingSlack(target), LawDenPowers[n + 1])) <= 0

\* |t - o|
Distance(o, t) == DyAbs(DySub(t, o))

\* o2 is not beyond t, seen from o
NoOvershoot(o, o2, t) ==
    LET d  == DySign(DySub(t, o))
        d2 == DySign(DySub(t, o2))
    IN  d2 = 0 \/ d2 = d

\* one tick takes the offset from o to o2: the distance to the target t stays 0
\* when it was 0, shrinks strictly otherwise, and o2 is not beyond t
Approaches(o, o2, t) ==
    /\ NoOvershoot(o, o2, t)
    /\ DySign(DySub(t, o)) = 0 => DySign(DySub(t, o2)) = 0
    /\ DySign(DySub(t, o)) # 0 => DyCmp(Distance(o2, t), Distance(o, t)) < 0

\* one tick takes the offset from o to o2: the distance to the target t does not
\* grow, and o2 is not beyond t
ApproachesWeakly(o, o2, t) ==
    /\ NoOvershoot(o, o2, t)
    /\ DyCmp(Distance(o2, t), Distance(o, t)) <= 0

\* one tick takes the offset from o to o2: the distance to the target t shrinks
\* strictly if it was above |t| * 2^-50
ApproachesAboveSlack(o, o2, t) ==
    DyCmp(Distance(o, t), RoundingSlack(t)) > 0 =>
        DyCmp(Distance(o2, t), Distance(o, t)) < 0

\* C13, as stated: n ticks after a target was stored with both eyes at offset
\* zero, each eye offset is target * (1 - 0.85^n); the left and right offsets
\* are equal after every tick; and every tick shrinks each offset's distance to
\* the target strictly while it is non-zero, without passing the target.
\* Violated: the offsets are floats, every tick rounds, and a few units in the
\* last place short of the target the rounded step is zero: the offset stays
\* there, at a non-zero distance.
C13_SmoothingExact ==
    /\ [](target_from_rest =>
            LET n == ticks - target_tick
            IN  /\ SmoothLaw(left_eye_x, target_eye_x, n)
                /\ SmoothLaw(left_eye_y, target_eye_y, n)
                /\ SmoothLaw(right_eye_x, target_eye_x, n)
                /\ SmoothLaw(right_eye_y, target_eye_y, n))
    /\ [](left_eye_x = right_eye_x /\ left_eye_y = right_eye_y)
    /\ [][(target_from_rest /\ ticks' = ticks + 1) =>
            /\ Approaches(left_eye_x, left_eye_x', target_eye_x)
            /\ Approaches(left_eye_y, left_eye_y', target_eye_y)
            /\ Approaches(right_eye_x, right_eye_x', target_eye_x)
            /\ Approaches(right_eye_y, right_eye_y', target_eye_y)]_vars

\* C13, amended: n ticks after a target was stored with both eyes at offset
\* zero, each eye offset is target * (1 - 0.85^n) to within |target| * 2^-50;
\* the left and right offsets are equal after every tick; no tick lets an
\* offset's distance to the target grow or takes the offset past the target;
\* and every tick shrinks the distance strictly while it is above
\* |target| * 2^-50.
C13_Smoothing ==
    /\ [](target_from_rest =>
            LET n == ticks - target_tick
            IN  /\ SmoothLawRounded(left_eye_x, target_eye_x, n)
                /\ SmoothLawRounded(left_eye_y, target_eye_y, n)
                /\ SmoothLawRounded(right_eye_x, target_eye_x, n)
                /\ SmoothLawRounded(right_eye_y, target_eye_y, n))
    /\ [](left_eye_x = right_eye_x /\ left_eye_y = right_eye_y)
    /\ [][ticks' = ticks + 1 =>
            /\ ApproachesWeakly(left_eye_x, left_eye_x', target_eye_x)
            /\ ApproachesWeakly(left_eye_y, left_eye_y', target_eye_y)
            /\ ApproachesWeakly(right_eye_x, right_eye_x', target_eye_x)
            /\ ApproachesWeakly(right_eye_y, right_eye_y', target_eye_y)]_vars
    /\ [][(target_from_rest /\ ticks' = ticks + 1) =>
            /\ ApproachesAboveSlack(left_eye_x, left_eye_x', target_eye_x)
            /\ ApproachesAboveSlack(left_eye_y, left_eye_y', target_eye_y)
            /\ ApproachesAboveSlack(right_eye_x, right_eye_x', target_eye_x)
            /\ ApproachesAboveSlack(right_eye_y, right_eye_y', target_eye_y)]_vars

\* 220 ticks towards (15, -15) from rest: the offsets have stopped three units
\* in the last place short of the target, at 14.999999999999995
\* = 8444249301319677 * 2^-49
C13_Witness ==
    /\ target_from_rest
    /\ ticks - target_tick = 220
    /\ target_eye_x = FloatOf(RatInt(15))
    /\ target_eye_y = FloatOf(RatInt(-15))
    /\ left_eye_x = DySub(target_eye_x, Dyadic(FALSE, <<3>>, -49))
    /\ right_eye_y = DySub(target_eye_y, Dyadic(TRUE, <<3>>, -49))

\* ---- the camera at shutdown (Spec)

\* C14: get_face_position never reads the capture after cleanup released it.
\* Violated: run clears running and releases the capture without waiting for
\* the face thread; an iteration that passed the test of line 79 before
\* running was cleared goes on to cap.read() on the released capture.
C14_NoReadAfterRelease == face_op # "read_released"

\* ---- expression and listening (Spec)

\* toggle_listening has flipped the flag and not yet set the expression
TogglePending == gpc \in {"toggle_status", "toggle_expression"}
\* the voice loop is between set_expression("talking") and set_expression("normal")
VoiceTalkingWindow == vpc \in {"speak", "normal"}

\* C15 as stated: outside a toggle_listening call in progress and outside the
\* voice loop's talking window, expression is "happy" when listening is true
\* and "normal" when it is false.
\* Violated: after speaking the voice loop sets "normal" (line 65) while
\* listening is still true.
C15_ExpressionMatchesListening ==
    (~TogglePending /\ ~VoiceTalkingWindow) =>
        expression = (IF listening THEN "happy" ELSE "normal")

\* C15, amended: toggle_listening sets "happy" when it turned listening on and
\* "normal" when it turned it off; the voice loop sets "talking" before speaking
\* and "normal" after, whatever the flag is.  So expression is "talking" only
\* inside the voice loop's talking window and, outside a toggle_listening call
\* in progress: "happy" only while listening is true; outside the window
\* "normal" when listening is false, and when listening is true "happy", or
\* "normal" when the voice loop's set_expression("normal") set it last.
C15_ExpressionFollowsToggleAndVoice ==
    /\ expression = "talking" => VoiceTalkingWindow
    /\ expression_setter = "none" => expression = "normal"
    /\ expression_setter = "voice" =>
          expression = (IF VoiceTalkingWindow THEN "talking" ELSE "normal")
    /\ ~TogglePending =>
          /\ expression_setter = "gui" =>
                expression = (IF listening THEN "happy" ELSE "normal")
          /\ expression = "happy" => listening
          /\ (~listening /\ ~VoiceTalkingWindow) => expression = "normal"
          /\ (listening /\ ~VoiceTalkingWindow) =>
                \/ expression = "happy"
                \/ expression = "normal" /\ expression_setter = "voice"

\* the voice loop has answered a text and set "normal" while listening stays true
C15_Witness ==
    /\ listening
    /\ gpc = "mainloop"
    /\ vpc = "top"
    /\ v_trace = VoiceCalls
    /\ expression = "normal"
    /\ expression_setter = "voice"

\* ---- roles in the conversation history (SpecConv)

\* C16: after any sequence of get_response and reset_conversation calls, none
\* of them overlapping another, the entries after the system message alternate
\* user, assistant, user, ... starting with a user entry.
\* Violated: a raising backend call leaves its user entry without a reply
\* (C2), so the next call appends a second user entry; and once such an
\* entry has made the length even, the trim of lines 76-78 cuts between a
\* user entry and its reply and leaves an assistant entry after the system
\* message.
C16_RolesAlternate ==
    (conv_pc = "idle" /\ ~conv_overlapped) =>
        /\ conversation_history[1].role = "system"
        /\ \A i \in 2..Len(conversation_history) :
              conversation_history[i].role = (IF i % 2 = 0 THEN "user" ELSE "assistant")

====
